---- MODULE Spec2Model ----
(***************************************************************************)
(* State machine of the GitHub OAuth exchange proxy (src/server.js): the   *)
(* in-memory state store oauthStates, the periodic sweep, the authorize    *)
(* handler and the exchange handler, split at its four await points.       *)
(* Time is Date.now() in milliseconds.  JavaScript objects are functions   *)
(* from property names to values; a property that is not in the DOMAIN is  *)
(* undefined.                                                              *)
(***************************************************************************)
EXTENDS Integers, Sequences, FiniteSets, TLC

\* ------------------------------------------------------------------ bounds
\* Date.now() when the process starts (six base-36 digits, as Date.now()
\* keeps a fixed number of base-36 digits over the horizon explored).
StartTime == 100000000
\* Number of timer periods explored.
MaxSweeps == 2
\* Milliseconds explored one by one after the start and after each sweep.
MaxOffset == 1
\* Number of authorize requests explored.
MaxIssue == 2
\* Number of exchange requests whose records are kept at a time (a request
\* that arrives takes the place of one that has been answered).
MaxReq == 2

\* --------------------------------------------------------- program constants
\* if (now - data.timestamp > 600000)
TTL == 600000
\* setInterval(..., 600000)
SweepPeriod == 600000

\* ------------------------------------------------------- JavaScript values
Undefined == "<undefined>"
Null == "<null>"

\* obj.k
Get(obj, k) == IF k \in DOMAIN obj THEN obj[k] ELSE Undefined

\* !v for the values that occur: undefined, null and "" are falsy
Falsy(v) == v \in {Undefined, Null, ""}

\* a || b
OrElse(a, b) == IF Falsy(a) THEN b ELSE a

\* JSON serialisation of a response object drops the properties whose value
\* is undefined (res.json -> JSON.stringify)
Json(obj, optional) ==
    LET keep == {k \in DOMAIN obj : ~(k \in optional /\ obj[k] = Undefined)}
    IN  [k \in keep |-> obj[k]]

Digits36 == <<"0", "1", "2", "3", "4", "5", "6", "7", "8", "9",
              "a", "b", "c", "d", "e", "f", "g", "h", "i", "j",
              "k", "l", "m", "n", "o", "p", "q", "r", "s", "t",
              "u", "v", "w", "x", "y", "z">>

RECURSIVE ToString36(_)
\* Number.prototype.toString(36) of a non-negative integer
ToString36(n) ==
    IF n < 36 THEN Digits36[n + 1]
    ELSE ToString36(n \div 36) \o Digits36[(n % 36) + 1]

\* Math.random().toString(36).substring(2): the base-36 fraction digits of
\* the number drawn ("i" for 0.5).  Math.random() may return the same number
\* twice.
RandomStrings == {"i"}

\* Math.random().toString(36).substring(2) + Date.now().toString(36)
MakeState(rnd, time) == rnd \o ToString36(time)

\* ------------------------------------------------------------------- state
VARIABLES
    oauthStates,   \* the Map: state string -> [timestamp, used]
    now,           \* Date.now()
    nextSweep,     \* when the setInterval callback fires next
    issued,        \* history: every state string returned by /url
    issueCount,    \* history: number of /url requests served
    entryId,       \* history: serial number of the /url request that wrote
                   \*          the entry currently stored under a key
    reqs,          \* the exchange requests under observation
    config,        \* the configuration read at startup
    health         \* the last response of GET /api/health

vars == <<oauthStates, now, nextSweep, issued, issueCount, entryId, reqs,
          config, health>>

ReqIds == 1 .. MaxReq


\* ---------------------------------------------------------- provider model
TokenUrl == "https://github.com/login/oauth/access_token"
UserUrl == "https://api.github.com/user"

\* what the caller may put in req.body.code: absent or a code
CodeInputs == {Undefined, "c1"}

\* what the caller may put in req.body.state: absent, a string the server
\* never produced, or a string taken from an authorize response
StateInputs == {Undefined, "forged"} \union issued

\* HTTP statuses the provider answers with
HttpStatuses == {200, 503}

\* bodies the token endpoint answers with (parsed JSON)
TokenBodies ==
    { [error |-> "bad_verification_code",
       error_description |-> "The code passed is incorrect or expired."],
      [error |-> "incorrect_client_credentials"],
      [token_type |-> "bearer"],
      [access_token |-> "", token_type |-> "bearer"],
      [access_token |-> "gho_A", scope |-> "repo"],
      [access_token |-> "gho_B", token_type |-> "Bearer", scope |-> "read:user"] }

\* bodies the user-info endpoint answers with (parsed JSON)
UserBodies ==
    { [id |-> "583231", login |-> "octocat", name |-> Null,
       avatar_url |-> "https://avatars.githubusercontent.com/u/583231",
       email |-> "octocat@github.com"] }

\* error.message of a fetch() that rejects, and of a .json() that rejects
FetchFailureMessage == "request failed, reason: connect ECONNREFUSED"
JsonFailureMessage == "invalid json response body, reason: Unexpected token <"

RECURSIVE ToString10(_)
\* template-literal conversion of a non-negative integer
ToString10(n) ==
    IF n < 10 THEN Digits36[n + 1]
    ELSE ToString10(n \div 10) \o Digits36[(n % 10) + 1]

\* Response.ok of node-fetch
Ok(status) == 200 <= status /\ status <= 299

\* ---------------------------------------------------------------- responses
NoResponse == [status |-> 0, body |-> [pending |-> TRUE]]

\* res.status(400).json({ error: 'Missing code or state parameter', ... })
MissingParameterResponse ==
    [status |-> 400,
     body |-> [error |-> "Missing code or state parameter", success |-> FALSE]]

\* res.status(400).json({ error: 'Invalid or expired state parameter', ... })
InvalidStateResponse ==
    [status |-> 400,
     body |-> [error |-> "Invalid or expired state parameter", success |-> FALSE]]

\* mutant: the provider's error is thrown into the catch block
ProviderErrorThrown(tokenData) ==
    [status |-> 500,
     body |-> [error |-> "Failed to exchange code for access token",
               details |-> OrElse(Get(tokenData, "error_description"),
                                  Get(tokenData, "error")),
               success |-> FALSE]]

\* res.status(400).json({ error: tokenData.error_description || tokenData.error, ... })
ProviderErrorResponse(tokenData) ==
    [status |-> 400,
     body |-> [error |-> OrElse(Get(tokenData, "error_description"),
                                Get(tokenData, "error")),
               success |-> FALSE]]

\* res.status(400).json({ error: 'No access token received from GitHub', ... })
MissingTokenResponse ==
    [status |-> 400,
     body |-> [error |-> "No access token received from GitHub", success |-> FALSE]]

\* the catch block: res.status(500).json({ error, details: error.message, ... })
ExceptionResponse(message) ==
    [status |-> 500,
     body |-> [error |-> "Failed to exchange code for access token",
               details |-> message,
               success |-> FALSE]]

\* the user object of the success response
UserOf(userData) ==
    Json([login |-> Get(userData, "login"),
          name |-> Get(userData, "name"),
          avatar_url |-> Get(userData, "avatar_url"),
          id |-> Get(userData, "id")],
         {"login", "name", "avatar_url", "id"})

\* mutant: token_type is passed on without the default
SuccessResponseNoDefault(tokenData, userData) ==
    [status |-> 200,
     body |-> Json([access_token |-> Get(tokenData, "access_token"),
                    token_type |-> Get(tokenData, "token_type"),
                    scope |-> Get(tokenData, "scope"),
                    user |-> UserOf(userData),
                    success |-> TRUE],
                   {"access_token", "token_type", "scope"})]

\* res.json({ access_token, token_type, scope, user, success: true })
SuccessResponse(tokenData, userData) ==
    [status |-> 200,
     body |-> Json([access_token |-> Get(tokenData, "access_token"),
                    token_type |-> OrElse(Get(tokenData, "token_type"), "bearer"),
                    scope |-> Get(tokenData, "scope"),
                    user |-> UserOf(userData),
                    success |-> TRUE],
                   {"access_token", "token_type", "scope"})]

\* ------------------------------------------------------------ the state store
\* mutant: the request is refused only when both parameters are missing
MissingParameterBoth(code, state) == Falsy(code) /\ Falsy(state)

\* if (!code || !state)
MissingParameter(code, state) == Falsy(code) \/ Falsy(state)

\* mutant: the test for a state that is not in the Map is left out
InvalidStateUsedOnly(states, state) ==
    state \in DOMAIN states /\ states[state].used

\* const stateData = oauthStates.get(state); if (!stateData || stateData.used)
InvalidState(states, state) ==
    state \notin DOMAIN states \/ states[state].used

\* mutant: a used state gets a message of its own
StateRejectionTelling(states, state) ==
    IF state \in DOMAIN states
    THEN [status |-> 400,
          body |-> [error |-> "State parameter already used", success |-> FALSE]]
    ELSE InvalidStateResponse

\* the response of the branch taken when InvalidState holds: one branch for
\* a state that is not in the Map and for one that is used
StateRejection(states, state) == InvalidStateResponse

\* mutant: the state is not marked
MarkUsedForgotten(states, state) == states

\* stateData.used = true
MarkUsed(states, state) == [states EXCEPT ![state].used = TRUE]

\* mutant: a state expires as soon as its age reaches the TTL
ExpiredEarly(time, data) == time - data.timestamp >= TTL

\* mutant: used states never expire
ExpiredUnusedOnly(time, data) == ~data.used /\ time - data.timestamp > TTL

\* mutant: only used states expire
ExpiredIfUsed(time, data) == data.used /\ time - data.timestamp > TTL

\* now - data.timestamp > 600000
Expired(time, data) == time - data.timestamp > TTL

\* the body of the setInterval callback
SweepStates(states, time) ==
    LET keep == {s \in DOMAIN states : ~Expired(time, states[s])}
    IN  [s \in keep |-> states[s]]

\* oauthStates.set(state, { timestamp: Date.now(), used: false })
SetState(states, state, time) ==
    [s \in DOMAIN states \union {state} |->
        IF s = state THEN [timestamp |-> time, used |-> FALSE] ELSE states[s]]

\* mutant: the used state is left in the Map
DeleteStateSkipped(states, state) == states

\* oauthStates.delete(state)
DeleteState(states, state) == [s \in DOMAIN states \ {state} |-> states[s]]

\* mutant: a refused state is removed from the Map
StatesAfterRejectionDeleted(states, state) ==
    [s \in DOMAIN states \ {state} |-> states[s]]

\* the Map after the branch that refuses the state: the branch returns
\* without writing to it
StatesAfterRejection(states, state) == states

\* ----------------------------------------------------------------- requests
IdleRequest ==
    [pc |-> "idle", code |-> Undefined, state |-> Undefined,
     res |-> NoResponse, calls |-> <<>>, tokenData |-> [pending |-> TRUE],
     check |-> "none", entry |-> 0, late |-> FALSE]

TokenCall(code) ==
    [url |-> TokenUrl, method |-> "POST", code |-> code, authorization |-> Undefined]

\* mutant: the access token is sent without the Bearer scheme
UserCallBare(tokenData) ==
    [url |-> UserUrl, method |-> "GET", code |-> Undefined,
     authorization |-> Get(tokenData, "access_token")]

UserCall(tokenData) ==
    [url |-> UserUrl, method |-> "GET", code |-> Undefined,
     authorization |-> "Bearer " \o Get(tokenData, "access_token")]

\* a handler that has sent its response
Respond(req, response) == [req EXCEPT !.pc = "done", !.res = response]

\* ------------------------------------------------------------ configuration
\* the two servers of the repository
Servers == {"server.js", "unnamed/part_000"}

\* process.env at startup; both servers run only with both credentials set
\* (server.js exits without them, the other one falls back to literals)
Configs ==
    [server : Servers,
     clientId : {"Ov23liAAAA", "Ov23liBBBB"},
     clientSecret : {"secret-1", "secret-2"},
     frontendUrl : {"http://localhost:8082"},
     port : {3001}]

DefaultConfig ==
    [server |-> "server.js", clientId |-> "Ov23liAAAA", clientSecret |-> "secret-1",
     frontendUrl |-> "http://localhost:8082", port |-> 3001]

\* JSON values of the health response, with their type
JsBoolean(b) == [boolean |-> b]
JsString(str) == [string |-> str]
JsNumber(n) == [number |-> n]

\* a && b
JsAnd(a, b) == IF Falsy(a) THEN a ELSE b

\* decimal digits of n, left-padded with zeros to the width
Pad(n, width) ==
    LET str == ToString10(n)
        RECURSIVE Fill(_)
        Fill(x) == IF Len(x) >= width THEN x ELSE Fill("0" \o x)
    IN  Fill(str)

\* new Date(ms).toISOString(), for ms >= 0
ToISOString(ms) ==
    LET days == ms \div 86400000
        rest == ms % 86400000
        z == days + 719468
        era == z \div 146097
        doe == z - era * 146097
        yoe == (doe - doe \div 1460 + doe \div 36524 - doe \div 146096) \div 365
        doy == doe - (365 * yoe + yoe \div 4 - yoe \div 100)
        mp == (5 * doy + 2) \div 153
        day == doy - (153 * mp + 2) \div 5 + 1
        month == IF mp < 10 THEN mp + 3 ELSE mp - 9
        year == yoe + era * 400 + (IF month <= 2 THEN 1 ELSE 0)
    IN  Pad(year, 4) \o "-" \o Pad(month, 2) \o "-" \o Pad(day, 2) \o "T"
        \o Pad(rest \div 3600000, 2) \o ":" \o Pad((rest % 3600000) \div 60000, 2)
        \o ":" \o Pad((rest % 60000) \div 1000, 2) \o "." \o Pad(rest % 1000, 3) \o "Z"

\* mutant: the double negation is left out, so the flag is the value of
\* GITHUB_CLIENT_ID && GITHUB_CLIENT_SECRET
HealthServerRaw(cfg, time) ==
    [status |-> 200,
     body |-> [status |-> JsString("OK"),
               timestamp |-> JsString(ToISOString(time)),
               oauth_configured |-> JsString(JsAnd(cfg.clientId, cfg.clientSecret))]]

\* server.js, app.get('/api/health')
HealthServer(cfg, time) ==
    [status |-> 200,
     body |-> [status |-> JsString("OK"),
               timestamp |-> JsString(ToISOString(time)),
               oauth_configured |->
                   JsBoolean(~Falsy(JsAnd(cfg.clientId, cfg.clientSecret)))]]

\* the other server registers two handlers for /api/health; the first one
\* answers
HealthUnnamed(cfg, time) ==
    [status |-> 200,
     body |-> [status |-> JsString("OK"),
               timestamp |-> JsString(ToISOString(time)),
               environment |->
                   [hasGitHubClientId |-> JsBoolean(~Falsy(cfg.clientId)),
                    hasGitHubClientSecret |-> JsBoolean(~Falsy(cfg.clientSecret)),
                    frontendUrl |-> JsString(cfg.frontendUrl),
                    port |-> JsNumber(cfg.port)]]]

\* --------------------------------------------------------------------- Init
Init ==
    /\ oauthStates = [s \in {} |-> [timestamp |-> 0, used |-> FALSE]]
    /\ now = StartTime
    /\ nextSweep = StartTime + SweepPeriod
    /\ issued = {}
    /\ issueCount = 0
    /\ entryId = [s \in {} |-> 0]
    /\ reqs = [r \in ReqIds |-> IdleRequest]
    /\ config = DefaultConfig
    /\ health = NoResponse

\* ------------------------------------------------------------------ actions
\* One millisecond passes.  The timer callback runs in the millisecond it is
\* due, so time does not pass nextSweep before Sweep has run.
Tick ==
    /\ now + 1 <= nextSweep
    /\ now + 1 <= (nextSweep - SweepPeriod) + MaxOffset
    /\ now' = now + 1
    /\ UNCHANGED <<oauthStates, nextSweep, issued, issueCount, entryId, reqs>>
    /\ UNCHANGED <<config, health>>

\* The server is idle until the timer is due.
WaitForTimer ==
    /\ now < nextSweep
    /\ nextSweep <= StartTime + MaxSweeps * SweepPeriod
    /\ now' = nextSweep
    /\ UNCHANGED <<oauthStates, nextSweep, issued, issueCount, entryId, reqs>>
    /\ UNCHANGED <<config, health>>

\* setInterval(() => { ... }, 600000)
Sweep ==
    /\ now = nextSweep
    /\ oauthStates' = SweepStates(oauthStates, now)
    /\ entryId' = [s \in DOMAIN oauthStates' |-> entryId[s]]
    /\ nextSweep' = nextSweep + SweepPeriod
    /\ UNCHANGED <<now, issued, issueCount, reqs>>
    /\ UNCHANGED <<config, health>>

\* app.get('/api/oauth/github/url'): rnd is what Math.random() contributes
Authorize(rnd) ==
    /\ issueCount < MaxIssue
    /\ LET state == MakeState(rnd, now)
       IN  /\ oauthStates' = SetState(oauthStates, state, now)
           /\ entryId' = [s \in DOMAIN oauthStates' |->
                             IF s = state THEN issueCount + 1 ELSE entryId[s]]
           /\ issued' = issued \union {state}
    /\ issueCount' = issueCount + 1
    /\ UNCHANGED <<now, nextSweep, reqs>>
    /\ UNCHANGED <<config, health>>

\* app.post('/api/oauth/github/token') from its first line to the first await
ExchangeStart(r, code, state) ==
    /\ reqs[r].pc \in {"idle", "done"}
    /\ LET req == [IdleRequest EXCEPT !.code = code, !.state = state]
           known == state \in DOMAIN oauthStates
       IN  IF MissingParameter(code, state)
           THEN /\ reqs' = [reqs EXCEPT ![r] =
                               Respond([req EXCEPT !.check = "missing"],
                                       MissingParameterResponse)]
                /\ UNCHANGED <<oauthStates, entryId>>
           ELSE IF InvalidState(oauthStates, state)
           THEN /\ reqs' = [reqs EXCEPT ![r] =
                               Respond([req EXCEPT
                                           !.check = IF known THEN "consumed" ELSE "unknown",
                                           !.entry = IF known THEN entryId[state] ELSE 0],
                                       StateRejection(oauthStates, state))]
                /\ oauthStates' = StatesAfterRejection(oauthStates, state)
                /\ entryId' = [s \in DOMAIN oauthStates' |-> entryId[s]]
           ELSE IF ~known
           THEN \* stateData.used = true on undefined throws a TypeError
                /\ reqs' = [reqs EXCEPT ![r] =
                               Respond([req EXCEPT !.check = "passed"],
                                       ExceptionResponse("Cannot set properties of undefined"))]
                /\ UNCHANGED <<oauthStates, entryId>>
           ELSE /\ oauthStates' = MarkUsed(oauthStates, state)
                /\ reqs' = [reqs EXCEPT ![r] =
                               [req EXCEPT !.pc = "awaitToken",
                                           !.calls = <<TokenCall(code)>>,
                                           !.check = "passed",
                                           !.entry = entryId[state],
                                           !.late = Expired(now, oauthStates[state])]]
                /\ UNCHANGED entryId
    /\ UNCHANGED <<now, nextSweep, issued, issueCount>>
    /\ UNCHANGED <<config, health>>

\* await fetch(token endpoint) rejects
TokenFetchFail(r) ==
    /\ reqs[r].pc = "awaitToken"
    /\ reqs' = [reqs EXCEPT ![r] = Respond(@, ExceptionResponse(FetchFailureMessage))]
    /\ UNCHANGED <<oauthStates, now, nextSweep, issued, issueCount, entryId>>
    /\ UNCHANGED <<config, health>>

\* await fetch(token endpoint) resolves; if (!tokenResponse.ok) throw
TokenFetchReturn(r, status) ==
    /\ reqs[r].pc = "awaitToken"
    /\ reqs' = [reqs EXCEPT ![r] =
                   IF ~Ok(status)
                   THEN Respond(@, ExceptionResponse(
                            "GitHub API responded with " \o ToString10(status)))
                   ELSE [@ EXCEPT !.pc = "awaitTokenJson"]]
    /\ UNCHANGED <<oauthStates, now, nextSweep, issued, issueCount, entryId>>
    /\ UNCHANGED <<config, health>>

\* await tokenResponse.json() rejects
TokenJsonFail(r) ==
    /\ reqs[r].pc = "awaitTokenJson"
    /\ reqs' = [reqs EXCEPT ![r] = Respond(@, ExceptionResponse(JsonFailureMessage))]
    /\ UNCHANGED <<oauthStates, now, nextSweep, issued, issueCount, entryId>>
    /\ UNCHANGED <<config, health>>

\* mutant: the profile is fetched before tokenData is looked at
AfterTokenDataFetchFirst(req, tokenData) ==
    LET got == [req EXCEPT !.tokenData = tokenData,
                           !.calls = Append(@, UserCall(tokenData))]
    IN  IF ~Falsy(Get(tokenData, "error"))
        THEN Respond(got, ProviderErrorResponse(tokenData))
        ELSE IF Falsy(Get(tokenData, "access_token"))
        THEN Respond(got, MissingTokenResponse)
        ELSE [got EXCEPT !.pc = "awaitUser"]

\* what the handler does with tokenData, up to the second fetch
AfterTokenData(req, tokenData) ==
    LET got == [req EXCEPT !.tokenData = tokenData]
    IN  IF ~Falsy(Get(tokenData, "error"))
        THEN Respond(got, ProviderErrorResponse(tokenData))
        ELSE IF Falsy(Get(tokenData, "access_token"))
        THEN Respond(got, MissingTokenResponse)
        ELSE [got EXCEPT !.pc = "awaitUser",
                         !.calls = Append(@, UserCall(tokenData))]

\* await tokenResponse.json() resolves
TokenJsonReturn(r, tokenData) ==
    /\ reqs[r].pc = "awaitTokenJson"
    /\ reqs' = [reqs EXCEPT ![r] = AfterTokenData(@, tokenData)]
    /\ UNCHANGED <<oauthStates, now, nextSweep, issued, issueCount, entryId>>
    /\ UNCHANGED <<config, health>>

\* await fetch(user endpoint) rejects
UserFetchFail(r) ==
    /\ reqs[r].pc = "awaitUser"
    /\ reqs' = [reqs EXCEPT ![r] = Respond(@, ExceptionResponse(FetchFailureMessage))]
    /\ UNCHANGED <<oauthStates, now, nextSweep, issued, issueCount, entryId>>
    /\ UNCHANGED <<config, health>>

\* await fetch(user endpoint) resolves; if (!userResponse.ok) throw
UserFetchReturn(r, status) ==
    /\ reqs[r].pc = "awaitUser"
    /\ reqs' = [reqs EXCEPT ![r] =
                   IF ~Ok(status)
                   THEN Respond(@, ExceptionResponse("Failed to verify access token"))
                   ELSE [@ EXCEPT !.pc = "awaitUserJson"]]
    /\ UNCHANGED <<oauthStates, now, nextSweep, issued, issueCount, entryId>>
    /\ UNCHANGED <<config, health>>

\* await userResponse.json() rejects
UserJsonFail(r) ==
    /\ reqs[r].pc = "awaitUserJson"
    /\ reqs' = [reqs EXCEPT ![r] = Respond(@, ExceptionResponse(JsonFailureMessage))]
    /\ UNCHANGED <<oauthStates, now, nextSweep, issued, issueCount, entryId>>
    /\ UNCHANGED <<config, health>>

\* mutant: the handler looks the state up again before it answers
UserJsonReturnChecked(r, userData) ==
    /\ reqs[r].pc = "awaitUserJson"
    /\ oauthStates' = DeleteState(oauthStates, reqs[r].state)
    /\ entryId' = [s \in DOMAIN oauthStates' |-> entryId[s]]
    /\ reqs' = [reqs EXCEPT ![r] =
                   IF reqs[r].state \in DOMAIN oauthStates
                   THEN Respond(@, SuccessResponse(@.tokenData, userData))
                   ELSE Respond(@, InvalidStateResponse)]
    /\ UNCHANGED <<now, nextSweep, issued, issueCount>>
    /\ UNCHANGED <<config, health>>

\* await userResponse.json() resolves; oauthStates.delete(state); res.json(...)
UserJsonReturn(r, userData) ==
    /\ reqs[r].pc = "awaitUserJson"
    /\ oauthStates' = DeleteState(oauthStates, reqs[r].state)
    /\ entryId' = [s \in DOMAIN oauthStates' |-> entryId[s]]
    /\ reqs' = [reqs EXCEPT ![r] = Respond(@, SuccessResponse(@.tokenData, userData))]
    /\ UNCHANGED <<now, nextSweep, issued, issueCount>>
    /\ UNCHANGED <<config, health>>

Next ==
    \/ Tick
    \/ WaitForTimer
    \/ Sweep
    \/ \E rnd \in RandomStrings : Authorize(rnd)
    \/ \E r \in ReqIds, code \in CodeInputs, state \in StateInputs :
          ExchangeStart(r, code, state)
    \/ \E r \in ReqIds : TokenFetchFail(r)
    \/ \E r \in ReqIds, status \in HttpStatuses : TokenFetchReturn(r, status)
    \/ \E r \in ReqIds : TokenJsonFail(r)
    \/ \E r \in ReqIds, tokenData \in TokenBodies : TokenJsonReturn(r, tokenData)
    \/ \E r \in ReqIds : UserFetchFail(r)
    \/ \E r \in ReqIds, status \in HttpStatuses : UserFetchReturn(r, status)
    \/ \E r \in ReqIds : UserJsonFail(r)
    \/ \E r \in ReqIds, userData \in UserBodies : UserJsonReturn(r, userData)

Spec == Init /\ [][Next]_vars

\* ------------------------------------------------------- the health endpoint
\* app.get('/api/health')
HealthCheck ==
    /\ health' = IF config.server = "server.js"
                 THEN HealthServer(config, now)
                 ELSE HealthUnnamed(config, now)
    /\ UNCHANGED <<oauthStates, now, nextSweep, issued, issueCount, entryId, reqs, config>>

\* the server started with any of the configurations
InitHealth ==
    /\ oauthStates = [s \in {} |-> [timestamp |-> 0, used |-> FALSE]]
    /\ now = StartTime
    /\ nextSweep = StartTime + SweepPeriod
    /\ issued = {}
    /\ issueCount = 0
    /\ entryId = [s \in {} |-> 0]
    /\ reqs = [r \in ReqIds |-> IdleRequest]
    /\ config \in Configs
    /\ health = NoResponse

\* The health handler reads the configuration and the clock only, so it is
\* explored with the clock and the timer, for every configuration.
NextHealth ==
    \/ Tick
    \/ WaitForTimer
    \/ Sweep
    \/ HealthCheck

SpecHealth == InitHealth /\ [][NextHealth]_vars

\* ------------------------------------------------------------------- claims
Passed(r) == reqs[r].pc # "idle" /\ reqs[r].check = "passed"
InFlight(r) == reqs[r].pc \in {"awaitToken", "awaitTokenJson", "awaitUser", "awaitUserJson"}
Done(r) == reqs[r].pc = "done"
RejectedAtValidation(r) == Done(r) /\ reqs[r].check \in {"unknown", "consumed"}

\* C1: of the exchange requests presenting one state string, at most one
\* passes state validation, whatever authorize, exchange and sweep
\* operations run in between.
C1_OnePassPerState ==
    \A r1, r2 \in ReqIds :
        (r1 # r2 /\ Passed(r1) /\ Passed(r2)) => reqs[r1].state # reqs[r2].state

\* C2: of the exchange requests that meet one entry of the store, at most one
\* passes state validation; a request that meets the entry once it is used
\* is answered with the invalid-state 400 and has made no outbound call, and
\* the entry stays used for as long as it is stored.
C2_OneWinner ==
    /\ \A r1, r2 \in ReqIds :
          (r1 # r2 /\ Passed(r1) /\ Passed(r2)) => reqs[r1].entry # reqs[r2].entry
    /\ \A r \in ReqIds :
          (reqs[r].check = "consumed") =>
              /\ reqs[r].pc = "done"
              /\ reqs[r].res = InvalidStateResponse
              /\ reqs[r].calls = <<>>
    /\ \A r \in ReqIds, s \in DOMAIN oauthStates :
          (Passed(r) /\ entryId[s] = reqs[r].entry) => oauthStates[s].used

\* a request is suspended on an outbound call after it passed validation,
\* and another one presenting the same state met the same entry and was
\* refused
C2_Witness ==
    \E r1, r2 \in ReqIds :
        /\ InFlight(r1) /\ Passed(r1)
        /\ reqs[r2].check = "consumed"
        /\ reqs[r2].state = reqs[r1].state
        /\ reqs[r2].entry = reqs[r1].entry

\* C3: an exchange request with a code and a state string that no authorize
\* response ever carried is answered with the invalid-state 400 and makes no
\* outbound call.
C3_UnknownRejected ==
    \A r \in ReqIds :
        (/\ reqs[r].pc # "idle"
         /\ ~MissingParameter(reqs[r].code, reqs[r].state)
         /\ reqs[r].state \notin issued) =>
            /\ reqs[r].pc = "done"
            /\ reqs[r].check = "unknown"
            /\ reqs[r].res = InvalidStateResponse
            /\ reqs[r].calls = <<>>

\* a forged state was refused while the store held an unused entry
C3_Witness ==
    \E r \in ReqIds :
        /\ Done(r)
        /\ reqs[r].code = "c1"
        /\ reqs[r].state = "forged"
        /\ reqs[r].res.status = 400
        /\ \E s \in DOMAIN oauthStates : ~oauthStates[s].used

\* C4: in the state a sweep leaves, no entry of the store is older than the
\* TTL, used or not.
C4_SweepRemovesExpired ==
    [][nextSweep' # nextSweep =>
          \A s \in DOMAIN oauthStates' : now' - oauthStates'[s].timestamp <= TTL]_vars

\* no exchange request was ever made, two states were issued, and the sweep
\* that just ran removed the one older than the TTL and kept the one whose
\* age is exactly the TTL
C4_Witness ==
    /\ \A r \in ReqIds : reqs[r].pc = "idle"
    /\ now = nextSweep - SweepPeriod
    /\ Cardinality(issued) = 2
    /\ \E s \in issued :
          /\ DOMAIN oauthStates = {s}
          /\ now - oauthStates[s].timestamp = TTL

\* C5: no exchange request passes state validation with a state that is
\* older than the TTL at that moment.
C5_ExpiredRejected ==
    \A r \in ReqIds : Passed(r) => ~reqs[r].late

\* C6: an exchange request without code or without state is answered with a
\* 400 failure and has made no outbound call.
C6_MissingParameter ==
    \A r \in ReqIds :
        (/\ reqs[r].pc # "idle"
         /\ (reqs[r].code = Undefined \/ reqs[r].state = Undefined)) =>
            /\ reqs[r].pc = "done"
            /\ reqs[r].res.status = 400
            /\ reqs[r].res.body.success = FALSE
            /\ reqs[r].calls = <<>>

\* a request without code that presented a stored, unused state was refused
C6_Witness ==
    \E r \in ReqIds :
        /\ Done(r)
        /\ reqs[r].code = Undefined
        /\ reqs[r].state \in DOMAIN oauthStates
        /\ ~oauthStates[reqs[r].state].used
        /\ reqs[r].res.status = 400

\* C7: any two exchange requests refused at state validation have the same
\* response and no outbound call, whether the state was not in the store or
\* was in it and used.
C7_SameRejection ==
    \A r1, r2 \in ReqIds :
        (RejectedAtValidation(r1) /\ RejectedAtValidation(r2)) =>
            /\ reqs[r1].res = reqs[r2].res
            /\ reqs[r1].calls = <<>>
            /\ reqs[r2].calls = <<>>

\* one request was refused for a state that is not in the store, another for
\* a state that is in it and used
C7_Witness ==
    \E r1, r2 \in ReqIds :
        /\ RejectedAtValidation(r1) /\ reqs[r1].check = "unknown"
        /\ RejectedAtValidation(r2) /\ reqs[r2].check = "consumed"

\* the body the claim C8 describes, for a token response and a profile
C8_Expected(tokenData, userData) ==
    [access_token |-> tokenData.access_token,
     token_type |-> IF "token_type" \in DOMAIN tokenData
                    THEN tokenData.token_type ELSE "bearer",
     scope |-> tokenData.scope,
     user |-> [id |-> userData.id, login |-> userData.login,
               name |-> userData.name, avatar_url |-> userData.avatar_url],
     success |-> TRUE]

\* C8: an exchange that passed validation, got an access token without an
\* error field and got the profile answers 200 with success: true, the
\* provider's access token, its token type or "bearer", the scope and the
\* four profile fields.
C8_SuccessResponse ==
    [][\A r \in ReqIds, userData \in UserBodies :
          UserJsonReturn(r, userData) =>
              /\ reqs[r].check = "passed"
              /\ "access_token" \in DOMAIN reqs[r].tokenData
              /\ "error" \notin DOMAIN reqs[r].tokenData
              /\ reqs'[r].pc = "done"
              /\ reqs'[r].res.status = 200
              /\ reqs'[r].res.body = C8_Expected(reqs[r].tokenData, userData)]_vars

\* an exchange succeeded with a token response that had no token_type
C8_Witness ==
    \E r \in ReqIds :
        /\ Done(r)
        /\ reqs[r].res.status = 200
        /\ "token_type" \notin DOMAIN reqs[r].tokenData
        /\ reqs[r].res.body.token_type = "bearer"

HasTokenData(r) == "pending" \notin DOMAIN reqs[r].tokenData
HasAccessToken(r) ==
    /\ "access_token" \in DOMAIN reqs[r].tokenData
    /\ reqs[r].tokenData.access_token # ""
ProviderError(r) == HasTokenData(r) /\ "error" \in DOMAIN reqs[r].tokenData
Failed(r) == Done(r) /\ ~reqs[r].res.body.success

\* C9 as stated: a failed exchange answers 400 for a missing parameter or an
\* invalid state and 500 for an upstream failure, the provider's error field
\* included.
C9_Original ==
    \A r \in ReqIds :
        Failed(r) =>
            /\ reqs[r].check \in {"missing", "unknown", "consumed"} => reqs[r].res.status = 400
            /\ (Passed(r) /\ ~HasTokenData(r)) => reqs[r].res.status = 500
            /\ ProviderError(r) => reqs[r].res.status = 500
            /\ Len(reqs[r].calls) = 2 => reqs[r].res.status = 500

\* C9 amended: 400 for a missing parameter, an invalid state, a provider
\* error field and a missing access token; 500 for a token endpoint that
\* answers with a non-success status, a profile fetch that does not succeed
\* and any exception.
C9_Statuses ==
    \A r \in ReqIds :
        Failed(r) =>
            /\ reqs[r].check \in {"missing", "unknown", "consumed"} => reqs[r].res.status = 400
            /\ (Passed(r) /\ ~HasTokenData(r)) => reqs[r].res.status = 500
            /\ ProviderError(r) => reqs[r].res.status = 400
            /\ (HasTokenData(r) /\ ~ProviderError(r) /\ Len(reqs[r].calls) = 1) =>
                   reqs[r].res.status = 400
            /\ Len(reqs[r].calls) = 2 => reqs[r].res.status = 500

\* one exchange failed on the provider's error field, another on a token
\* endpoint that answered 503
C9_Witness ==
    \E r1, r2 \in ReqIds :
        /\ Failed(r1) /\ ProviderError(r1)
        /\ Failed(r2) /\ Passed(r2) /\ ~HasTokenData(r2)
        /\ reqs[r2].res.body.details = "GitHub API responded with 503"

\* C10 as stated: an exchange that passed validation has made exactly two
\* outbound calls when it is answered.
C10_Original ==
    \A r \in ReqIds : (Done(r) /\ Passed(r)) => Len(reqs[r].calls) = 2

\* C10 amended: an exchange that passed validation makes the token endpoint
\* POST, and makes the user-info GET after it exactly when the token
\* response is read and has no error field and an access token; no exchange
\* makes more than two calls, and one refused before or at validation makes
\* none.
C10_Calls ==
    \A r \in ReqIds :
        /\ Len(reqs[r].calls) <= 2
        /\ Passed(r) <=> Len(reqs[r].calls) >= 1
        /\ Len(reqs[r].calls) >= 1 =>
               /\ reqs[r].calls[1].url = TokenUrl
               /\ reqs[r].calls[1].method = "POST"
        /\ Len(reqs[r].calls) = 2 <=>
               /\ HasTokenData(r)
               /\ "error" \notin DOMAIN reqs[r].tokenData
               /\ HasAccessToken(r)
        /\ Len(reqs[r].calls) = 2 =>
               /\ reqs[r].calls[2].url = UserUrl
               /\ reqs[r].calls[2].method = "GET"

\* an exchange that passed validation was answered after one outbound call
C10_Witness ==
    \E r \in ReqIds :
        /\ Done(r) /\ Passed(r)
        /\ Len(reqs[r].calls) = 1
        /\ HasTokenData(r)

\* C11: the body of every failure response of the exchange step has the two
\* fields error and success and nothing else.
C11_ShortErrorOnly ==
    \A r \in ReqIds : Failed(r) => DOMAIN reqs[r].res.body = {"error", "success"}

\* The clock and the timer of the runtime always run; nothing makes the
\* provider answer an outbound call.
FairSpec == Spec /\ WF_vars(Tick) /\ WF_vars(WaitForTimer) /\ WF_vars(Sweep)

\* C12: every exchange request that is waiting for an outbound call is
\* eventually answered.
C12_AlwaysAnswered ==
    \A r \in ReqIds : InFlight(r) ~> Done(r)

\* the fields of a health response that are computed from the configuration
ConfigFields(body) ==
    IF "environment" \in DOMAIN body
    THEN {body.environment[k] : k \in DOMAIN body.environment}
    ELSE {body.oauth_configured}

\* a health response without its timestamp
SansTimestamp(body) == [k \in DOMAIN body \ {"timestamp"} |-> body[k]]

\* C13 as stated: the health response is 200 with status "OK" and every
\* field of it computed from the configuration is a boolean.
C13_Original ==
    health.status # 0 =>
        /\ health.status = 200
        /\ health.body.status = JsString("OK")
        /\ \A v \in ConfigFields(health.body) : DOMAIN v = {"boolean"}

\* C13 amended: the health response is 200 with status "OK"; apart from the
\* timestamp it is fixed by the server, the frontend URL and the port, the
\* credentials appearing only as flags that are true, so that it is the same
\* for any two client ids and client secrets; the second server also reports
\* the frontend URL and the port as they are.
C13_Health ==
    health.status # 0 =>
        /\ health.status = 200
        /\ SansTimestamp(health.body) =
              IF config.server = "server.js"
              THEN [status |-> JsString("OK"), oauth_configured |-> JsBoolean(TRUE)]
              ELSE [status |-> JsString("OK"),
                    environment |->
                        [hasGitHubClientId |-> JsBoolean(TRUE),
                         hasGitHubClientSecret |-> JsBoolean(TRUE),
                         frontendUrl |-> JsString(config.frontendUrl),
                         port |-> JsNumber(config.port)]]

\* server.js answered a health request under the second client id and the
\* second client secret, some time after the start
C13_Witness ==
    /\ health.status = 200
    /\ config.server = "server.js"
    /\ config.clientId = "Ov23liBBBB"
    /\ config.clientSecret = "secret-2"
    /\ health.body.timestamp # JsString(ToISOString(StartTime))

\* C14: the authorize step adds a key to the store that was not in it.
C14_FreshState ==
    [][issueCount' # issueCount => DOMAIN oauthStates' # DOMAIN oauthStates]_vars

\* what a suspended handler can do next, given what the provider answers
Continuations(req) ==
    IF req.pc = "awaitToken"
    THEN {Respond(req, ExceptionResponse(FetchFailureMessage))} \union
         {IF Ok(status) THEN [req EXCEPT !.pc = "awaitTokenJson"]
          ELSE Respond(req, ExceptionResponse(
                   "GitHub API responded with " \o ToString10(status))) :
          status \in HttpStatuses}
    ELSE IF req.pc = "awaitTokenJson"
    THEN {Respond(req, ExceptionResponse(JsonFailureMessage))} \union
         {AfterTokenData(req, tokenData) : tokenData \in TokenBodies}
    ELSE IF req.pc = "awaitUser"
    THEN {Respond(req, ExceptionResponse(FetchFailureMessage))} \union
         {IF Ok(status) THEN [req EXCEPT !.pc = "awaitUserJson"]
          ELSE Respond(req, ExceptionResponse("Failed to verify access token")) :
          status \in HttpStatuses}
    ELSE {Respond(req, ExceptionResponse(JsonFailureMessage))} \union
         {Respond(req, SuccessResponse(req.tokenData, userData)) :
          userData \in UserBodies}

\* C15: a sweep leaves every request as it is and every entry either as it
\* is or removed; a request that passed validation and whose entry is no
\* longer stored goes on as the provider's answers alone decide, and the
\* step that ends it leaves the store as it is.
C15_SweepAndRequest ==
    [][/\ nextSweep' # nextSweep =>
             /\ reqs' = reqs
             /\ DOMAIN oauthStates' \subseteq DOMAIN oauthStates
             /\ \A s \in DOMAIN oauthStates' : oauthStates'[s] = oauthStates[s]
       /\ \A r \in ReqIds :
             (/\ InFlight(r)
              /\ reqs[r].state \notin DOMAIN oauthStates
              /\ reqs'[r] # reqs[r]) =>
                 /\ reqs'[r] \in Continuations(reqs[r])
                 /\ oauthStates' = oauthStates]_vars

\* one state was issued, a request passed validation with it, the sweep
\* removed the entry, and the request is waiting for the profile body
C15_Witness ==
    \E r \in ReqIds :
        /\ reqs[r].pc = "awaitUserJson"
        /\ issueCount = 1
        /\ reqs[r].state \notin DOMAIN oauthStates

\* C16 as stated: once a request has passed validation the store holds no
\* entry under its state.
C16_Original ==
    \A r \in ReqIds : Passed(r) => reqs[r].state \notin DOMAIN oauthStates

\* C16 amended: the entry a request passed validation with stays in the
\* store, marked used, while the exchange is in flight and after it failed;
\* it is removed when the exchange succeeds, or by a sweep.
C16_KeptUntilSuccess ==
    [][\A r \in ReqIds :
          /\ (reqs'[r].pc # "idle" /\ reqs'[r].check = "passed") =>
                \A s \in DOMAIN oauthStates' :
                    entryId'[s] = reqs'[r].entry =>
                        /\ oauthStates'[s].used
                        /\ ~(reqs'[r].pc = "done" /\ reqs'[r].res.body.success)
          /\ (reqs[r].pc \in {"idle", "done"} /\ reqs'[r].pc = "awaitToken") =>
                /\ reqs'[r].state \in DOMAIN oauthStates'
                /\ entryId'[reqs'[r].state] = reqs'[r].entry
          /\ (InFlight(r) /\ reqs'[r].pc = "done" /\ ~reqs'[r].res.body.success) =>
                oauthStates' = oauthStates]_vars

\* an exchange that passed validation has failed and its entry is still
\* stored, marked used
C16_Witness ==
    \E r \in ReqIds :
        /\ Failed(r) /\ Passed(r)
        /\ reqs[r].state \in DOMAIN oauthStates
        /\ entryId[reqs[r].state] = reqs[r].entry
        /\ oauthStates[reqs[r].state].used

\* C17: the user-info endpoint is called only once the token response has
\* been read and has no error field and an access token, and the call
\* carries that access token; a token response without access token ends
\* the attempt after the one call.
C17_UserCallAfterToken ==
    \A r \in ReqIds :
        /\ Len(reqs[r].calls) = 2 =>
              /\ HasTokenData(r)
              /\ "error" \notin DOMAIN reqs[r].tokenData
              /\ HasAccessToken(r)
              /\ reqs[r].calls[2] =
                    [url |-> UserUrl, method |-> "GET", code |-> Undefined,
                     authorization |-> "Bearer " \o reqs[r].tokenData.access_token]
        /\ (/\ HasTokenData(r)
            /\ "error" \notin DOMAIN reqs[r].tokenData
            /\ ~HasAccessToken(r)) =>
              /\ reqs[r].pc = "done"
              /\ reqs[r].res = MissingTokenResponse
              /\ Len(reqs[r].calls) = 1

\* one attempt called the user-info endpoint with the token it was given,
\* another ended on a token response without access token
C17_Witness ==
    \E r1, r2 \in ReqIds :
        /\ Len(reqs[r1].calls) = 2
        /\ reqs[r1].calls[2].authorization = "Bearer gho_B"
        /\ HasTokenData(r2)
        /\ reqs[r2].tokenData = [access_token |-> "", token_type |-> "bearer"]

\* C18: with the timer firing every 10 minutes, no entry of the store is
\* older than the TTL plus one timer period.
C18_BoundedStay ==
    \A s \in DOMAIN oauthStates : now - oauthStates[s].timestamp <= TTL + SweepPeriod

\* the entry of an exchange that failed is 20 minutes old and the sweep
\* due at this moment has not run yet
C18_Witness ==
    \E r \in ReqIds :
        /\ Failed(r) /\ Passed(r)
        /\ reqs[r].state \in DOMAIN oauthStates
        /\ entryId[reqs[r].state] = reqs[r].entry
        /\ now - oauthStates[reqs[r].state].timestamp = TTL + SweepPeriod
        /\ now = nextSweep

\* C19: a sweep keeps every entry that is not older than the TTL, as it is;
\* an entry leaves the store only by a sweep when it is older than the TTL or
\* by the success of an exchange that presented its key; and a request
\* with a code that presents a stored entry that is not used passes
\* validation.
C19_SweepKeepsYoung ==
    [][/\ nextSweep' # nextSweep =>
             \A s \in DOMAIN oauthStates :
                 now - oauthStates[s].timestamp <= TTL =>
                     /\ s \in DOMAIN oauthStates'
                     /\ oauthStates'[s] = oauthStates[s]
       /\ \A s \in DOMAIN oauthStates \ DOMAIN oauthStates' :
             \/ nextSweep' # nextSweep /\ now - oauthStates[s].timestamp > TTL
             \/ \E r \in ReqIds :
                   /\ reqs[r].state = s
                   /\ reqs[r].pc = "awaitUserJson"
                   /\ reqs'[r].pc = "done"
                   /\ reqs'[r].res.body.success
       /\ \A r \in ReqIds :
             (/\ reqs[r].pc \in {"idle", "done"}
              /\ reqs'[r] # reqs[r]
              /\ reqs'[r].code # Undefined
              /\ reqs'[r].state \in DOMAIN oauthStates
              /\ ~oauthStates[reqs'[r].state].used) =>
                 /\ reqs'[r].pc = "awaitToken"
                 /\ reqs'[r].check = "passed"]_vars

\* a sweep has run at this moment and a request has passed validation with
\* the entry it kept, whose age is exactly the TTL
C19_Witness ==
    \E r \in ReqIds :
        /\ now = nextSweep - SweepPeriod
        /\ reqs[r].pc = "awaitToken"
        /\ reqs[r].state \in DOMAIN oauthStates
        /\ now - oauthStates[reqs[r].state].timestamp = TTL
        /\ \E q \in ReqIds :
              /\ reqs[q].check = "unknown"
              /\ reqs[q].state \in issued
              /\ reqs[q].state \notin DOMAIN oauthStates

\* C20: an exchange request refused for a missing parameter or an invalid
\* state leaves the store as it is.
C20_RejectionLeavesStore ==
    [][\A r \in ReqIds :
          (/\ reqs[r].pc \in {"idle", "done"}
           /\ reqs'[r].pc = "done"
           /\ reqs'[r].check \in {"missing", "unknown", "consumed"}
           /\ reqs'[r] # reqs[r]) =>
              oauthStates' = oauthStates]_vars

\* a request presenting a used state was refused and the entry is stored as
\* it was, and a request without code presenting an unused state was refused
\* and that entry is still unused
C20_Witness ==
    \E r1, r2 \in ReqIds :
        /\ Done(r1) /\ reqs[r1].check = "consumed"
        /\ reqs[r1].state \in DOMAIN oauthStates
        /\ entryId[reqs[r1].state] = reqs[r1].entry
        /\ Done(r2) /\ reqs[r2].check = "missing"
        /\ reqs[r2].state \in DOMAIN oauthStates
        /\ ~oauthStates[reqs[r2].state].used

====
